---- MODULE Spec2Model ----
(***************************************************************************)
(* A model of h1b_statistics: MultiFileCounter, CleanReader and            *)
(* ExtendedCounter (src/src/iterators.py) and gen_counter_text             *)
(* (src/src/h1b_counting.py).                                              *)
(*                                                                         *)
(* Python values are modelled as follows.                                  *)
(*   str    a sequence of one-character strings                            *)
(*   dict   a sequence of <<key, value>> pairs in insertion order          *)
(*   None / dict / float / int / str where the code inspects the type:     *)
(*          a record with a "tag" field                                    *)
(*   an expression that may raise: a record [exc, val], exc = NoExc when   *)
(*          it returns val                                                 *)
(* An exception that leaves a generator body as StopIteration is the       *)
(* RuntimeError of PEP 479 (Python 3.7 and later).                         *)
(***************************************************************************)
EXTENDS Integers, Sequences, FiniteSets, TLC

VARIABLES mfc, hist, report, probe, resolved

vars == <<mfc, hist, report, probe, resolved>>

\* the variables outside the aggregators
others == <<report, probe, resolved>>

---------------------------------------------------------------------------
(* Bounds of the model *)

MaxFiles == 2
MaxAliasCalls == 1
MaxTestAliasCalls == 2
MaxConstraints == 2
MaxCounters == 2
MaxCalls == 2
MaxRows == 3
MaxKeys == 3
MaxCount == 2
MaxN == 2
MaxHeader == 3

---------------------------------------------------------------------------
(* str *)

\* The grave accent, code point 96 (the character itself cannot be written in a
\* TLA+ string).
Grave == "U+0060"

\* The printable ASCII characters, code points 32 to 126, in order.
AsciiTable ==
  << " ", "!", "\"", "#", "$", "%", "&", "'", "(", ")", "*", "+", ",", "-", ".", "/",
     "0", "1", "2", "3", "4", "5", "6", "7", "8", "9", ":", ";", "<", "=", ">", "?",
     "@", "A", "B", "C", "D", "E", "F", "G", "H", "I", "J", "K", "L", "M", "N", "O",
     "P", "Q", "R", "S", "T", "U", "V", "W", "X", "Y", "Z", "[", "\\", "]", "^", "_",
     Grave, "a", "b", "c", "d", "e", "f", "g", "h", "i", "j", "k", "l", "m", "n", "o",
     "p", "q", "r", "s", "t", "u", "v", "w", "x", "y", "z", "{", "|", "}", "~" >>

FirstCodePoint == 32

IsAscii(ch) == \E i \in DOMAIN AsciiTable : AsciiTable[i] = ch

\* ord(ch) of an ASCII character
Ord(ch) == (FirstCodePoint - 1) + (CHOOSE i \in DOMAIN AsciiTable : AsciiTable[i] = ch)

Chr(n) == AsciiTable[n - (FirstCodePoint - 1)]

\* a character outside ASCII (e with an acute accent)
EAcute == "U+00E9"

LowerChar(ch) ==
  IF IsAscii(ch) /\ Ord(ch) >= Ord("A") /\ Ord(ch) <= Ord("Z")
  THEN Chr(Ord(ch) + (Ord("a") - Ord("A"))) ELSE ch

UpperChar(ch) ==
  IF IsAscii(ch) /\ Ord(ch) >= Ord("a") /\ Ord(ch) <= Ord("z")
  THEN Chr(Ord(ch) - (Ord("a") - Ord("A"))) ELSE ch

\* str.lower()
str_lower(s) == [i \in DOMAIN s |-> LowerChar(s[i])]

\* str.upper()
str_upper(s) == [i \in DOMAIN s |-> UpperChar(s[i])]

Whitespace == {" "}

\* str.strip(): the slice between the first and the last non-blank character
str_strip(s) ==
  LET keep == {i \in DOMAIN s : s[i] \notin Whitespace}
  IN  IF keep = {} THEN <<>>
      ELSE LET lo == CHOOSE i \in keep : \A j \in keep : i <= j
               hi == CHOOSE i \in keep : \A j \in keep : j <= i
           IN  SubSeq(s, lo, hi)

\* s < t for two str: lexicographic by code point
str_lt(s, t) ==
  \E k \in 1..(Len(t)) :
     /\ \A j \in 1..(k - 1) : j <= Len(s) /\ s[j] = t[j]
     /\ Len(s) >= k - 1
     /\ \/ Len(s) = k - 1
        \/ (s[k] # t[k] /\ Ord(s[k]) < Ord(t[k]))

str_le(s, t) == s = t \/ str_lt(s, t)

IsDigit(ch) == IsAscii(ch) /\ Ord(ch) >= Ord("0") /\ Ord(ch) <= Ord("9")

RECURSIVE DigitsValue(_)
DigitsValue(s) ==
  IF s = <<>> THEN 0
  ELSE 10 * DigitsValue(SubSeq(s, 1, Len(s) - 1)) + (Ord(s[Len(s)]) - Ord("0"))

---------------------------------------------------------------------------
(* Results of expressions that may raise, and tagged values: val holds a   *)
(* str or a dict, num a number                                             *)

NoExc == "NoExc"
Ret(v) == [exc |-> NoExc, val |-> v]
Raise(e) == [exc |-> e, val |-> <<>>]
\* the expression returned b
Returns(r, b) == r.exc = NoExc /\ r.val = b

PyNone == [tag |-> "None", val |-> <<>>, num |-> 0]
PyStr(s) == [tag |-> "str", val |-> s, num |-> 0]
PyInt(n) == [tag |-> "int", val |-> <<>>, num |-> n]
PyFloat(n) == [tag |-> "float", val |-> <<>>, num |-> n]
PyDict(d) == [tag |-> "dict", val |-> d, num |-> 0]

\* bool(x) of None or a dict
Truthy(x) == x.tag = "dict" /\ x.val # <<>>

\* float(entry) of a str, for the decimal digit strings the model's files hold
\* (every other str of the model's files is one float() rejects)
float_of(s) ==
  IF s # <<>> /\ \A i \in DOMAIN s : IsDigit(s[i])
  THEN Ret(PyFloat(DigitsValue(s))) ELSE Raise("ValueError")

---------------------------------------------------------------------------
(* dict: <<key, value>> pairs in insertion order *)

Keys(d) == [i \in DOMAIN d |-> d[i][1]]
KeySet(d) == {d[i][1] : i \in DOMAIN d}
Has(d, k) == \E i \in DOMAIN d : d[i][1] = k
Get(d, k) == d[CHOOSE i \in DOMAIN d : d[i][1] = k][2]
\* d[k] = v, and d.update({k: v}): a present key keeps its place
Put(d, k, v) ==
  IF Has(d, k) THEN [i \in DOMAIN d |-> IF d[i][1] = k THEN <<k, v>> ELSE d[i]]
  ELSE Append(d, <<k, v>>)
\* Counter.__getitem__: a missing key counts 0
CountOf(c, k) == IF Has(c, k) THEN Get(c, k) ELSE 0
\* the dict as a mapping, its order forgotten (dict.__eq__)
AsMap(d) == {d[i] : i \in DOMAIN d}

RECURSIVE SumValues(_)
SumValues(c) == IF c = <<>> THEN 0 ELSE c[1][2] + SumValues(Tail(c))

---------------------------------------------------------------------------
(* A csv file: its lines in order, each line the sequence of its fields (the  *)
(* text between the ';' delimiters).  The first line is the header.           *)

\* next(reader) over csv.reader(f, delimiter=';'): the header line
Header(file) == IF file = <<>> THEN Raise("StopIteration") ELSE Ret(file[1])

\* csv.DictReader: the entry of a data line under column col.  The last of
\* several equal header names wins, a short line gives None (restval).
DictRow(header, line, col) ==
  LET at == {i \in DOMAIN header : header[i] = col}
  IN  IF at = {} THEN Raise("KeyError")
      ELSE LET last == CHOOSE i \in at : \A j \in at : j <= i
           IN  Ret(IF last <= Len(line) THEN PyStr(line[last]) ELSE PyNone)

\* a reader that takes the first data line for a second header line
DataLinesSkipFirst(file, n) == {i \in DOMAIN file : i > n /\ i > 2 /\ file[i] # <<>>}

\* csv.DictReader skips blank lines: the lines after position n that it yields
DataLinesAfter(file, n) == {i \in DOMAIN file : i > n /\ i > 1 /\ file[i] # <<>>}

---------------------------------------------------------------------------
(* CleanReader *)

CleanReader(cols, alias_dict) ==
  [ cols |-> cols,
    aliases |-> IF alias_dict # <<>> THEN [i \in DOMAIN cols |-> Get(alias_dict, cols[i])]
                ELSE cols,
    preprocessing |-> "strict",
    _len |-> 0,
    line_num |-> 1 ]

NoReader == [cols |-> <<>>, aliases |-> <<>>, preprocessing |-> "strict",
             _len |-> 0, line_num |-> 0]

\* str.encode('ascii', errors=...).decode()
ascii_encode(s, errors) ==
  IF \A i \in DOMAIN s : IsAscii(s[i]) THEN Ret(s)
  ELSE IF errors = "ignore" THEN Ret(SelectSeq(s, IsAscii))
  ELSE IF errors = "replace" THEN Ret([i \in DOMAIN s |-> IF IsAscii(s[i]) THEN s[i] ELSE "?"])
  ELSE Raise("UnicodeEncodeError")

preprocess_text(reader, entry) ==
  IF entry.tag = "None" THEN Raise("AttributeError")
  ELSE LET enc == ascii_encode(entry.val, reader.preprocessing)
       IN  IF enc.exc # NoExc THEN enc
           ELSE Ret(str_lower(str_strip(enc.val)))

\* One turn of `for row in self.reader:` of CleanReader.__iter__ on data line
\* `line`: the RowTup it yields, a dict alias -> cleaned entry.
RECURSIVE RowData(_, _, _, _)
RowData(reader, header, line, i) ==
  IF i > Len(reader.cols) THEN Ret(<<>>)
  ELSE LET raw == DictRow(header, line, reader.cols[i])
       IN  IF raw.exc # NoExc THEN raw
           ELSE LET entry == preprocess_text(reader, raw.val)
                    rest == RowData(reader, header, line, i + 1)
                IN  IF entry.exc # NoExc THEN entry
                    ELSE IF rest.exc # NoExc THEN rest
                    ELSE Ret(<<<<reader.aliases[i], entry.val>>>> \o rest.val)

row_tup(reader, header, line) == RowData(reader, header, line, 1)

---------------------------------------------------------------------------
(* ExtendedCounter *)

\* a counter that records presence only
IncOverwrite(counter, key) == Put(counter, key, 1)

\* counter[key] += 1
Inc(counter, key) == Put(counter, key, CountOf(counter, key) + 1)

---------------------------------------------------------------------------
(* MultiFileCounter *)

cmp_dict == {"==", "<=", ">=", "<", ">"}

Constraint(alias, cmp, val) == [alias |-> alias, cmp |-> cmp, val |-> val]

MultiFileCounter(files, colname_list_dict) ==
  [ files |-> files,
    colname_list_dict |-> colname_list_dict,
    _counters |-> <<>>,
    _constraints |-> <<>>,
    _files_parsed |-> 0,
    pc |-> "idle",
    file_i |-> 0,
    clean_reader |-> NoReader,
    exc |-> NoExc ]

files_parsed(m) == m._files_parsed

\* the aliases property: self.colname_list_dict.keys()
aliases(m) ==
  IF m.colname_list_dict.tag = "None" THEN Raise("AttributeError")
  ELSE Ret(Keys(m.colname_list_dict.val))

\* an add_alias that replaces the candidate list of the alias
add_alias_replace(m, alias, colname) ==
  LET d == IF ~Truthy(m.colname_list_dict) THEN <<>> ELSE m.colname_list_dict.val
  IN  [m EXCEPT !.colname_list_dict = PyDict(Put(d, alias, <<colname>>))]

add_alias(m, alias, colname) ==
  LET d == IF ~Truthy(m.colname_list_dict) THEN <<>> ELSE m.colname_list_dict.val
  IN  [m EXCEPT !.colname_list_dict =
         PyDict(IF Has(d, alias) THEN Put(d, alias, Append(Get(d, alias), colname))
                ELSE Put(d, alias, <<colname>>))]

add_constraint(m, alias, cmp, val) ==
  IF cmp \notin cmp_dict THEN m
  ELSE [m EXCEPT !._constraints = Append(@, Constraint(alias, cmp, val))]

add_counter(m, counter_alias) ==
  [m EXCEPT !._counters = Put(@, counter_alias, <<>>)]

\* con.cmp(entry, con.val), entry a str or a float and val a str, int or float
compare(cmp, entry, val) ==
  IF entry.tag = "str" /\ val.tag = "str" THEN
       Ret(CASE cmp = "==" -> entry.val = val.val
             [] cmp = "<"  -> str_lt(entry.val, val.val)
             [] cmp = "<=" -> str_le(entry.val, val.val)
             [] cmp = ">"  -> str_lt(val.val, entry.val)
             [] cmp = ">=" -> str_le(val.val, entry.val))
  ELSE IF entry.tag = "float" /\ val.tag \in {"int", "float"} THEN
       Ret(CASE cmp = "==" -> entry.num = val.num
             [] cmp = "<"  -> entry.num < val.num
             [] cmp = "<=" -> entry.num <= val.num
             [] cmp = ">"  -> entry.num > val.num
             [] cmp = ">=" -> entry.num >= val.num)
  ELSE IF cmp = "==" THEN Ret(FALSE)
  ELSE Raise("TypeError")

\* One turn of `for con in self.constraints:`: the bool appended to bools
constraint_bool(con, row) ==
  IF ~Has(row, con.alias) THEN Raise("AttributeError")
  ELSE LET entry == Get(row, con.alias)
           \* isinstance(entry, int) is false of every entry: it is a str
           coerced == IF con.val.tag = "float" THEN float_of(entry)
                      ELSE Ret(PyStr(entry))
       IN  IF coerced.exc # NoExc THEN coerced
           ELSE compare(con.cmp, coerced.val, con.val)

RECURSIVE constraint_bools(_, _, _)
constraint_bools(constraints, row, i) ==
  IF i > Len(constraints) THEN Ret(<<>>)
  ELSE LET b == constraint_bool(constraints[i], row)
       IN  IF b.exc # NoExc THEN b
           ELSE LET rest == constraint_bools(constraints, row, i + 1)
                IN  IF rest.exc # NoExc THEN rest
                    ELSE Ret(<<b.val>> \o rest.val)

\* any(bools)
any_bool(bools) == \E i \in DOMAIN bools : bools[i]

\* all(bools)
all(bools) == \A i \in DOMAIN bools : bools[i]

constraints_satisfied_of(constraints, row) ==
  IF constraints = <<>> THEN Ret(TRUE)
  ELSE LET bools == constraint_bools(constraints, row, 1)
       IN  IF bools.exc # NoExc THEN bools ELSE Ret(all(bools.val))

constraints_satisfied(m, row) == constraints_satisfied_of(m._constraints, row)

\* next(col for col in header if col in colname_list)
first_match(header, colname_list) ==
  LET hits == {i \in DOMAIN header : \E j \in DOMAIN colname_list : colname_list[j] = header[i]}
  IN  IF hits = {} THEN Raise("StopIteration")
      ELSE Ret(header[CHOOSE i \in hits : \A j \in hits : i <= j])

RECURSIVE alias_dict_loop(_, _, _, _)
alias_dict_loop(registry, header, keys, acc) ==
  IF keys = <<>> THEN Ret(acc)
  ELSE LET alias == Head(keys)
           colname == first_match(header, Get(registry, alias))
       IN  IF colname.exc # NoExc THEN colname
           ELSE alias_dict_loop(registry, header, Tail(keys), Put(acc, colname.val, alias))

alias_dict(m, file) ==
  LET header == Header(file)
  IN  IF header.exc # NoExc THEN header
      ELSE IF Truthy(m.colname_list_dict)
      THEN alias_dict_loop(m.colname_list_dict.val, header.val,
                           Keys(m.colname_list_dict.val), <<>>)
      ELSE LET al == aliases(m)
           IN  IF al.exc # NoExc THEN al
               ELSE Ret([i \in DOMAIN al.val |-> <<al.val[i], al.val[i]>>])

RECURSIVE invert(_, _)
invert(d, acc) ==
  IF d = <<>> THEN acc ELSE invert(Tail(d), Put(acc, d[1][2], d[1][1]))

colname_dict(m, file) ==
  LET ad == alias_dict(m, file)
  IN  IF ad.exc # NoExc THEN ad ELSE Ret(invert(ad.val, <<>>))

---------------------------------------------------------------------------
(* The str values of the model's inputs *)

al_status == <<"s", "t", "a", "t", "u", "s">>
al_occupation == <<"o", "c", "c", "u", "p", "a", "t", "i", "o", "n">>
al_job_title == <<"j", "o", "b", "_", "t", "i", "t", "l", "e">>
al_id == <<"i", "d">>
col_ID == <<"I", "D">>
col_STATUS == <<"S", "T", "A", "T", "U", "S">>
col_CASE_STATUS == <<"C", "A", "S", "E", "_", "S", "T", "A", "T", "U", "S">>
col_SOC_NAME == <<"S", "O", "C", "_", "N", "A", "M", "E">>
col_LCA_CASE_SOC_NAME == <<"L", "C", "A", "_", "C", "A", "S", "E", "_", "S", "O", "C", "_", "N", "A", "M", "E">>
col_JOB_TITLE == <<"J", "O", "B", "_", "T", "I", "T", "L", "E">>
v_certified == <<"c", "e", "r", "t", "i", "f", "i", "e", "d">>
v_denied == <<"d", "e", "n", "i", "e", "d">>
v_nurse == <<"n", "u", "r", "s", "e">>
v_welder == <<"w", "e", "l", "d", "e", "r">>
v_baker == <<"b", "a", "k", "e", "r">>
raw_CERTIFIED == <<"C", "E", "R", "T", "I", "F", "I", "E", "D">>
raw_Welder == <<" ", "W", "e", "l", "d", "e", "r", " ">>
raw_Nurse == <<"N", "u", "r", "s", "e">>
raw_cafe == <<"c", "a", "f", EAcute>>
v_1 == <<"1">>
v_2 == <<"2">>
v_3 == <<"3">>
v_4 == <<"4">>
v_5 == <<"5">>
v_12 == <<"1", "2">>
v_x == <<"x">>

---------------------------------------------------------------------------
(* MultiFileCounter.__iter__ and count(), one step at a time.               *)
(* pc: "idle"   no count() call is running                                  *)
(*     "start"  at `for file in self.files:`, file_i the next file          *)
(*     "rows"   at `for row_tup in clean_reader:`                           *)
(*     "yield"  at the yield that follows a file                            *)
(*     "raised" an exception has left count()                               *)

\* an aggregator that catches the exception and goes on to the next file
skip_file(m, e) == [m EXCEPT !.pc = "yield", !.clean_reader = NoReader]

\* an exception leaving the generator body; StopIteration leaves it as
\* RuntimeError
raised(m, e) ==
  [m EXCEPT !.pc = "raised", !.exc = IF e = "StopIteration" THEN "RuntimeError" ELSE e]

\* a count() that starts from files_parsed = 0
count_call_zero_parsed(m) == [m EXCEPT !.pc = "start", !.file_i = 1, !._files_parsed = 0]

\* a count() that starts from empty counters
count_call_fresh_counters(m) ==
  [m EXCEPT !.pc = "start", !.file_i = 1,
            !._counters = [c \in DOMAIN @ |-> <<@[c][1], <<>>>>]]

\* count(): `for file in self:` creates the generator and asks for its first item
count_call(m) == [m EXCEPT !.pc = "start", !.file_i = 1]

\* the lines from `for file in self.files:` to `clean_reader = CleanReader(...)`
iter_file(m) ==
  LET file == m.files[m.file_i]
      ad == alias_dict(m, file)
      cd == colname_dict(m, file)
      al == aliases(m)
  IN  IF ad.exc # NoExc THEN raised(m, ad.exc)
      ELSE IF cd.exc # NoExc THEN raised(m, cd.exc)
      ELSE IF al.exc # NoExc THEN raised(m, al.exc)
      ELSE IF \E i \in DOMAIN al.val : ~Has(cd.val, al.val[i]) THEN raised(m, "KeyError")
      ELSE [m EXCEPT !.pc = "rows",
                     !.clean_reader =
                        CleanReader([i \in DOMAIN al.val |-> Get(cd.val, al.val[i])], ad.val)]

\* `for alias in self.counters: self._counters[alias][getattr(row_tup, alias)] += 1`
\* from the i-th counter on; an AttributeError keeps the increments made before it
RECURSIVE update_counters(_, _, _)
update_counters(counters, row, i) ==
  IF i > Len(counters) THEN Ret(counters)
  ELSE LET alias == counters[i][1]
       IN  IF ~Has(row, alias) THEN [exc |-> "AttributeError", val |-> counters]
           ELSE update_counters(
                  Put(counters, alias, Inc(counters[i][2], Get(row, alias))), row, i + 1)

\* the data line the reader yields next
next_line(m) ==
  LET rest == DataLinesAfter(m.files[m.file_i], m.clean_reader.line_num)
  IN  CHOOSE i \in rest : \A j \in rest : i <= j

has_next_line(m) == DataLinesAfter(m.files[m.file_i], m.clean_reader.line_num) # {}

\* one turn of `for row_tup in clean_reader:`
iter_row(m) ==
  LET file == m.files[m.file_i]
      n == next_line(m)
      reader == [m.clean_reader EXCEPT !._len = @ + 1, !.line_num = n]
      m1 == [m EXCEPT !.clean_reader = reader]
      row == row_tup(reader, file[1], file[n])
  IN  IF row.exc # NoExc THEN raised(m1, row.exc)
      ELSE LET ok == constraints_satisfied(m1, row.val)
           IN  IF ok.exc # NoExc THEN raised(m1, ok.exc)
               ELSE IF ~ok.val THEN m1
               ELSE LET upd == update_counters(m1._counters, row.val, 1)
                        m2 == [m1 EXCEPT !._counters = upd.val]
                    IN  IF upd.exc # NoExc THEN raised(m2, upd.exc) ELSE m2

\* the reader is exhausted: `self._files_parsed += 1` and `yield`
iter_yield(m) ==
  [m EXCEPT !._files_parsed = @ + 1, !.pc = "yield", !.clean_reader = NoReader]

\* count(): `continue` asks the generator for its next item
count_continue(m) == [m EXCEPT !.pc = "start", !.file_i = @ + 1]

\* self.files is exhausted: the generator ends and count() returns
count_return(m) == [m EXCEPT !.pc = "idle", !.file_i = 0]

---------------------------------------------------------------------------
(* Inputs *)

FileA ==
  << <<col_ID, col_STATUS, col_SOC_NAME>>,
     <<v_1, v_certified, v_nurse>>,
     <<v_2, v_denied, v_nurse>>,
     <<v_3, v_certified, v_welder>> >>

\* other header names, another column order, entries that need cleaning
FileB ==
  << <<col_CASE_STATUS, col_LCA_CASE_SOC_NAME, col_ID>>,
     <<raw_CERTIFIED, raw_Welder, v_4>>,
     <<v_certified, raw_Nurse, v_5>> >>

\* no status column
FileC ==
  << <<col_ID, col_SOC_NAME>>,
     <<v_1, v_nurse>> >>

\* a blank line, then a short line after a good one, an id that is no number
FileD ==
  << <<col_ID, col_STATUS, col_SOC_NAME>>,
     <<>>,
     <<v_x, v_certified, v_welder>>,
     <<v_2, v_certified>>,
     <<v_3, v_certified, v_nurse>> >>

FileCatalogue == {FileA, FileB, FileC, FileD}

RECURSIVE SeqsUpTo(_, _)
\* the sequences over S of length at most n
SeqsUpTo(S, n) ==
  IF n = 0 THEN {<<>>}
  ELSE LET shorter == SeqsUpTo(S, n - 1)
       IN  shorter \cup {Append(q, x) : q \in {t \in shorter : Len(t) = n - 1}, x \in S}

\* the lists of input files: up to MaxFiles different files in any order
FileLists ==
  {files \in SeqsUpTo(FileCatalogue, MaxFiles) :
      \A i, j \in DOMAIN files : files[i] = files[j] => i = j}

\* the registry of main() in h1b_counting.py
MainDict ==
  << <<al_status, <<col_STATUS, col_CASE_STATUS>>>>,
     <<al_occupation, <<col_SOC_NAME, col_LCA_CASE_SOC_NAME>>>> >>

InitialRegistries == {PyNone, PyDict(MainDict)}

AliasPool == { <<al_occupation, col_SOC_NAME>>, <<al_id, col_ID>> }

ConstraintPool ==
  { Constraint(al_status, "==", PyStr(v_certified)),
    Constraint(al_id, "<", PyFloat(4)) }

CounterPool == {al_occupation, al_job_title}

Instances == {1}

---------------------------------------------------------------------------
(* History of each aggregator, for stating the properties *)

NoHist(registry) ==
  [ init_dict |-> registry,   \* the constructor's colname_list_dict
    add_log |-> <<>>,         \* the add_alias calls so far, in order
    returned |-> 0,           \* count() calls that have returned
    parsed_at_call |-> 0,     \* files_parsed when the running count() was called
    first_counts |-> <<>> ]   \* the counters when the first count() returned

NoReport == [counter |-> <<>>, n |-> 0, body |-> <<>>, made |-> FALSE]

\* the last call of constraints_satisfied made outside count(), and its result
NoProbe == [made |-> FALSE, row |-> <<>>, result |-> Ret(TRUE)]

\* the maps of the last two resolutions of a file's header made outside
\* count(): alias_dict (header -> alias) and colname_dict (alias -> header)
NoResolved == [times |-> 0, alias_dict |-> Ret(<<>>), colname_dict |-> Ret(<<>>),
               before |-> <<>>]

---------------------------------------------------------------------------
(* The aggregator's life: configure, then count() *)

Init ==
  /\ \E files \in FileLists, registry \in InitialRegistries :
       /\ mfc = [i \in Instances |-> MultiFileCounter(files, registry)]
       /\ hist = [i \in Instances |-> NoHist(registry)]
  /\ report = NoReport
  /\ probe = NoProbe
  /\ resolved = NoResolved

Configuring(i) == mfc[i].pc = "idle" /\ hist[i].returned = 0

AddAlias(i) ==
  /\ Configuring(i)
  /\ Len(hist[i].add_log) < MaxAliasCalls
  /\ \E pair \in AliasPool :
       /\ mfc' = [mfc EXCEPT ![i] = add_alias(@, pair[1], pair[2])]
       /\ hist' = [hist EXCEPT ![i].add_log = Append(@, pair)]
  /\ UNCHANGED others

AddConstraint(i) ==
  /\ Configuring(i)
  /\ Len(mfc[i]._constraints) < MaxConstraints
  /\ \E con \in ConstraintPool :
       mfc' = [mfc EXCEPT ![i] = add_constraint(@, con.alias, con.cmp, con.val)]
  /\ UNCHANGED <<hist, others>>

AddCounter(i) ==
  /\ Configuring(i)
  /\ \E alias \in CounterPool :
       /\ Has(mfc[i]._counters, alias) \/ Len(mfc[i]._counters) < MaxCounters
       /\ mfc' = [mfc EXCEPT ![i] = add_counter(@, alias)]
  /\ UNCHANGED <<hist, others>>

Count(i) ==
  /\ mfc[i].pc = "idle"
  /\ hist[i].returned < MaxCalls
  /\ mfc' = [mfc EXCEPT ![i] = count_call(@)]
  /\ hist' = [hist EXCEPT ![i].parsed_at_call = mfc[i]._files_parsed]
  /\ UNCHANGED others

StartFile(i) ==
  /\ mfc[i].pc = "start"
  /\ mfc[i].file_i <= Len(mfc[i].files)
  /\ mfc' = [mfc EXCEPT ![i] = iter_file(@)]
  /\ UNCHANGED <<hist, others>>

ReadRow(i) ==
  /\ mfc[i].pc = "rows"
  /\ has_next_line(mfc[i])
  /\ mfc' = [mfc EXCEPT ![i] = iter_row(@)]
  /\ UNCHANGED <<hist, others>>

EndFile(i) ==
  /\ mfc[i].pc = "rows"
  /\ ~has_next_line(mfc[i])
  /\ mfc' = [mfc EXCEPT ![i] = iter_yield(@)]
  /\ UNCHANGED <<hist, others>>

Continue(i) ==
  /\ mfc[i].pc = "yield"
  /\ mfc' = [mfc EXCEPT ![i] = count_continue(@)]
  /\ UNCHANGED <<hist, others>>

Return(i) ==
  /\ mfc[i].pc = "start"
  /\ mfc[i].file_i > Len(mfc[i].files)
  /\ mfc' = [mfc EXCEPT ![i] = count_return(@)]
  /\ hist' = [hist EXCEPT ![i].returned = @ + 1,
                          ![i].first_counts =
                             IF hist[i].returned = 0 THEN mfc[i]._counters ELSE @]
  /\ UNCHANGED others

Next ==
  \E i \in Instances :
    \/ AddAlias(i)
    \/ AddConstraint(i)
    \/ AddCounter(i)
    \/ Count(i)
    \/ StartFile(i)
    \/ ReadRow(i)
    \/ EndFile(i)
    \/ Continue(i)
    \/ Return(i)

Spec == Init /\ [][Next]_vars

---------------------------------------------------------------------------
(* What the counters should hold, stated from the files alone *)

\* the file of the p-th pass over a file: a count() call passes over the
\* files in order, and the next call starts over
PassFile(m, p) == m.files[((p - 1) % Len(m.files)) + 1]

\* the reader of a file under m's registry, when the schema resolves
ReaderOf(m, file) ==
  LET ad == alias_dict(m, file)
      cd == colname_dict(m, file)
      al == aliases(m)
  IN  IF ad.exc # NoExc \/ cd.exc # NoExc \/ al.exc # NoExc THEN Raise("schema")
      ELSE IF \E i \in DOMAIN al.val : ~Has(cd.val, al.val[i]) THEN Raise("schema")
      ELSE Ret(CleanReader([i \in DOMAIN al.val |-> Get(cd.val, al.val[i])], ad.val))

\* the normalized record of data line n of a file under m's registry
Record(m, file, n) ==
  LET reader == ReaderOf(m, file)
  IN  IF reader.exc # NoExc THEN reader ELSE row_tup(reader.val, file[1], file[n])

\* the record satisfies every constraint of m
Admitted(m, rec) ==
  /\ rec.exc = NoExc
  /\ \A c \in DOMAIN m._constraints :
        Returns(constraint_bool(m._constraints[c], rec.val), TRUE)

\* the admitted data lines of the first k passes, and of the lines before
\* line `upto` of pass k + 1, each with its record
AdmittedLines(m, k, upto) ==
  LET read == UNION { { [p |-> p, n |-> n, rec |-> Record(m, PassFile(m, p), n)] :
                          n \in {x \in DataLinesAfter(PassFile(m, p), 1) :
                                    p <= k \/ x < upto} } :
                      p \in 1..(IF upto > 0 THEN k + 1 ELSE k) }
  IN  {r \in read : Admitted(m, r.rec)}

\* every counter of m holds exactly the admitted lines of the first k passes
\* (and of pass k + 1 before line upto), by value
CountersHold(m, k, upto) ==
  LET lines == IF m.files = <<>> THEN {} ELSE AdmittedLines(m, k, upto)
  IN  \A c \in DOMAIN m._counters :
        LET alias == m._counters[c][1]
            counter == m._counters[c][2]
            at == {r \in lines : Has(r.rec.val, alias)}
            values == KeySet(counter) \cup {Get(r.rec.val, alias) : r \in at}
        IN  /\ \A v \in values :
                 CountOf(counter, v) =
                   Cardinality({r \in at : Get(r.rec.val, alias) = v})
            /\ \A j \in DOMAIN counter : counter[j][2] >= 1
            /\ SumValues(counter) = Cardinality(lines)

Observable(m) == m.pc \in {"idle", "yield"}

\* C1: whenever the files-processed count is observed to be k (before the run,
\* at the yield between two files, after count() has returned), every counter
\* holds, for every value v, the number of rows of the first k files passed
\* over that satisfy all constraints and whose cleaned value at the counter's
\* alias is v; so each counter's sum is the number of admitted rows of those files.
C1_CountersMatchFiles ==
  \A i \in DOMAIN mfc :
     Observable(mfc[i]) => CountersHold(mfc[i], mfc[i]._files_parsed, 0)

\* two files with different header names and one constraint have been counted
C1_Witness ==
  \E i \in DOMAIN mfc :
     /\ mfc[i].pc = "idle" /\ hist[i].returned = 1
     /\ mfc[i].files = <<FileA, FileB>>
     /\ mfc[i]._constraints # <<>>
     /\ Has(mfc[i]._counters, al_occupation)
     /\ CountOf(Get(mfc[i]._counters, al_occupation), v_welder) = 2
     /\ CountOf(Get(mfc[i]._counters, al_occupation), v_nurse) = 2

---------------------------------------------------------------------------
(* Partition: the same rows in one file and split over two files *)

HeaderPool == { <<col_ID, col_STATUS, col_SOC_NAME>>,
                <<col_CASE_STATUS, col_LCA_CASE_SOC_NAME>> }

LinePool ==
  { <<v_1, v_certified, v_nurse>>,
    <<v_2, v_denied, v_nurse>>,
    <<v_3, raw_CERTIFIED, raw_Welder>>,
    <<v_4, v_certified>> }

RECURSIVE add_constraints(_, _)
add_constraints(m, cons) ==
  IF cons = <<>> THEN m
  ELSE add_constraints(add_constraint(m, cons[1].alias, cons[1].cmp, cons[1].val), Tail(cons))

RECURSIVE add_counters(_, _)
add_counters(m, als) ==
  IF als = <<>> THEN m ELSE add_counters(add_counter(m, Head(als)), Tail(als))

\* an aggregator after its add_constraint and add_counter calls
Configured(files, registry, cons, als) ==
  add_counters(add_constraints(MultiFileCounter(files, registry), cons), als)

PartitionConstraints == { <<>>, <<Constraint(al_status, "==", PyStr(v_certified))>> }

PartitionCounters == { <<al_occupation>>, <<al_status, al_occupation>> }

InitPartition ==
  /\ \E header \in HeaderPool, rows \in SeqsUpTo(LinePool, MaxRows),
        cons \in PartitionConstraints, als \in PartitionCounters :
       \E split \in 0..Len(rows) :
          /\ mfc = <<Configured(<< <<header>> \o rows >>, PyDict(MainDict), cons, als),
                     Configured(<< <<header>> \o SubSeq(rows, 1, split),
                                   <<header>> \o SubSeq(rows, split + 1, Len(rows)) >>,
                                PyDict(MainDict), cons, als)>>
          /\ hist = <<NoHist(PyDict(MainDict)), NoHist(PyDict(MainDict))>>
  /\ report = NoReport
  /\ probe = NoProbe
  /\ resolved = NoResolved

Finished(i) == mfc[i].pc = "raised" \/ (mfc[i].pc = "idle" /\ hist[i].returned >= 1)

\* count() on the single file, then count() on the two files
Turn(i) == i = 1 \/ Finished(1)

NextPartition ==
  \E i \in {1, 2} :
    \/ (Turn(i) /\ hist[i].returned = 0 /\ Count(i))
    \/ (Turn(i) /\ StartFile(i))
    \/ (Turn(i) /\ ReadRow(i))
    \/ (Turn(i) /\ EndFile(i))
    \/ (Turn(i) /\ Continue(i))
    \/ (Turn(i) /\ Return(i))

SpecPartition == InitPartition /\ [][NextPartition]_vars

\* C2: partition invariance.  For every sequence of data rows under one header
\* and every split point, count() on one file holding all the rows and count()
\* on two files with that header holding the rows before and after the split
\* end alike and leave identical counters: the same aliases, and under each
\* alias the same values with the same counts.
C2_PartitionInvariance ==
  (Finished(1) /\ Finished(2)) =>
     /\ mfc[1].pc = mfc[2].pc
     /\ Keys(mfc[1]._counters) = Keys(mfc[2]._counters)
     /\ \A c \in DOMAIN mfc[1]._counters :
           AsMap(mfc[1]._counters[c][2]) = AsMap(mfc[2]._counters[c][2])

\* both runs returned, both parts of the split hold rows, and a value was
\* counted in both parts
C2_Witness ==
  /\ Finished(1) /\ Finished(2)
  /\ mfc[2].pc = "idle"
  /\ Len(mfc[2].files[1]) > 1 /\ Len(mfc[2].files[2]) > 1
  /\ Has(mfc[2]._counters, al_occupation)
  /\ CountOf(Get(mfc[2]._counters, al_occupation), v_nurse) = 2
  /\ CountOf(Get(mfc[2]._counters, al_occupation), v_welder) = 1

---------------------------------------------------------------------------
(* constraints_satisfied on its own: constraints of every comparator and    *)
(* value type, applied to normalized records                                *)

AnyConstraintPool ==
  {Constraint(al_status, cmp, PyStr(v_certified)) : cmp \in cmp_dict}
  \cup {Constraint(al_id, cmp, val) : cmp \in cmp_dict, val \in {PyFloat(4), PyInt(5), PyStr(v_3)}}

RecordPool ==
  { << <<al_status, st>>, <<al_id, id>> >> : st \in {v_certified, v_denied}, id \in {v_2, v_5, v_x} }
  \cup { << <<al_status, v_certified>> >> }

InitConstraints ==
  /\ mfc = <<MultiFileCounter(<<FileA>>, PyDict(MainDict))>>
  /\ hist = <<NoHist(PyDict(MainDict))>>
  /\ report = NoReport
  /\ probe = NoProbe
  /\ resolved = NoResolved

AddAnyConstraint(i) ==
  /\ Configuring(i)
  /\ Len(mfc[i]._constraints) < MaxConstraints
  /\ \E con \in AnyConstraintPool :
       mfc' = [mfc EXCEPT ![i] = add_constraint(@, con.alias, con.cmp, con.val)]
  /\ probe' = NoProbe
  /\ UNCHANGED <<hist, report, resolved>>

Evaluate(i) ==
  /\ \E row \in RecordPool :
       probe' = [made |-> TRUE, row |-> row, result |-> constraints_satisfied(mfc[i], row)]
  /\ UNCHANGED <<mfc, hist, report, resolved>>

NextConstraints == \E i \in Instances : AddAnyConstraint(i) \/ Evaluate(i)

SpecConstraints == InitConstraints /\ [][NextConstraints]_vars

\* the constraint list in another order
Reordered(cons, perm) == [j \in DOMAIN cons |-> cons[perm[j]]]

\* C3: constraints_satisfied(row) returns true exactly when every constraint of
\* the list holds for the row, whatever the order the constraints were added
\* in; with an empty constraint list it returns true for every row.
C3_ConstraintsAreConjunction ==
  probe.made =>
    LET cons == mfc[1]._constraints
        row == probe.row
    IN  /\ Returns(probe.result, TRUE)
             <=> \A c \in DOMAIN cons : Returns(constraint_bool(cons[c], row), TRUE)
        /\ cons = <<>> => Returns(probe.result, TRUE)
        /\ \A perm \in Permutations(DOMAIN cons) :
              LET other == constraints_satisfied_of(Reordered(cons, perm), row)
              IN  /\ Returns(other, TRUE) <=> Returns(probe.result, TRUE)
                  /\ Returns(other, FALSE) <=> Returns(probe.result, FALSE)

\* two different constraints, the first holds of the row and the second does
\* not, and the result is false
C3_Witness ==
  /\ probe.made
  /\ Len(mfc[1]._constraints) = 2
  /\ Returns(constraint_bool(mfc[1]._constraints[1], probe.row), TRUE)
  /\ Returns(constraint_bool(mfc[1]._constraints[2], probe.row), FALSE)
  /\ Returns(probe.result, FALSE)

---------------------------------------------------------------------------
(* Failures of a file, stated from the file and the configuration *)

\* the aliases used by the counters and the constraints
UsedAliases(m) ==
  KeySet(m._counters) \cup {m._constraints[c].alias : c \in DOMAIN m._constraints}

\* the header of the file has a column that is a candidate of the alias
HasCandidate(m, file, alias) ==
  /\ file # <<>>
  /\ m.colname_list_dict.tag = "dict"
  /\ Has(m.colname_list_dict.val, alias)
  /\ \E h \in DOMAIN file[1] :
        \E j \in DOMAIN Get(m.colname_list_dict.val, alias) :
           Get(m.colname_list_dict.val, alias)[j] = file[1][h]

\* an alias that a counter or a constraint uses has no candidate in the header
MissingRequired(m, file) == \E alias \in UsedAliases(m) : ~HasCandidate(m, file, alias)

\* the data lines of the file that the aggregator has read
LinesRead(m) == {n \in DataLinesAfter(m.files[m.file_i], 1) : n <= m.clean_reader.line_num}

\* C4: if the header of file k has no candidate for an alias that a counter
\* or a constraint uses, processing file k raises an error (the file is never
\* completed), and after the error every counter holds exactly the counts of
\* files 1..k-1 and nothing of file k.
C4_MissingAliasRaisesBeforeCounting ==
  \A i \in DOMAIN mfc :
    LET m == mfc[i]
    IN  /\ m.pc = "yield" => ~MissingRequired(m, m.files[m.file_i])
        /\ (m.pc = "raised" /\ MissingRequired(m, m.files[m.file_i]))
              => CountersHold(m, m._files_parsed, 0)

\* resolving the schema of the file fails
SchemaFails(m, file) == ReaderOf(m, file).exc # NoExc

\* reading data line n of the file, or evaluating a constraint on it, fails
FailsAt(m, file, n) ==
  LET rec == Record(m, file, n)
  IN  \/ rec.exc # NoExc
      \/ \E c \in DOMAIN m._constraints : constraint_bool(m._constraints[c], rec.val).exc # NoExc

\* the file has a failing point
Fails(m, file) ==
  SchemaFails(m, file) \/ \E n \in DataLinesAfter(file, 1) : FailsAt(m, file, n)

CompletedInCall(m) ==
  IF m.pc = "idle" THEN 0
  ELSE IF m.pc = "yield" THEN m.file_i
  ELSE m.file_i - 1

C7_SecondRunDoubles ==
  \A i \in DOMAIN mfc :
    LET m == mfc[i]
    IN  /\ hist[i].returned >= 1 => m.pc # "raised"
        /\ (m.pc = "idle" /\ hist[i].returned = 2)
             => /\ Keys(m._counters) = Keys(hist[i].first_counts)
                /\ \A c \in DOMAIN m._counters :
                     LET now == m._counters[c][2]
                         first == hist[i].first_counts[c][2]
                     IN  /\ KeySet(now) = KeySet(first)
                         /\ \A v \in KeySet(first) : CountOf(now, v) = 2 * CountOf(first, v)

\* two runs over FileA and FileB
C7_Witness ==
  /\ mfc[1].pc = "idle"
  /\ hist[1].returned = 2
  /\ Has(hist[1].first_counts, al_occupation)
  /\ CountOf(Get(hist[1].first_counts, al_occupation), v_welder) = 2
  /\ CountOf(Get(mfc[1]._counters, al_occupation), v_welder) = 4

---------------------------------------------------------------------------
(* The report: ExtendedCounter.percent_str and gen_counter_text *)

RECURSIVE str_of_int(_)
\* str(n) of a natural number
str_of_int(n) ==
  IF n < 10 THEN <<Chr(Ord("0") + n)>>
  ELSE str_of_int(n \div 10) \o <<Chr(Ord("0") + (n % 10))>>

\* f'{(100 * self.fraction(item)):.1f}%': the percentage rounded to a tenth.
\* fraction is a float division; for totals below 16 no percentage lies
\* halfway between two tenths, so rounding to nearest decides every case.
percent_str(counter, item) ==
  LET key == str_lower(item)
      total == SumValues(counter)
  IN  IF total = 0 THEN Raise("ZeroDivisionError")
      ELSE LET tenths == (2000 * CountOf(counter, key) + total) \div (2 * total)
           IN  Ret(str_of_int(tenths \div 10) \o <<".">> \o str_of_int(tenths % 10) \o <<"%">>)

\* Counter.most_common(n): heapq.nlargest(n, items, key=count), which is
\* sorted(items, key=count, reverse=True)[:n]; equal counts keep insertion order
most_common(counter, n) ==
  LET before(i, j) == \/ counter[i][2] > counter[j][2]
                      \/ counter[i][2] = counter[j][2] /\ i < j
      all_sorted == [r \in DOMAIN counter |->
                       counter[CHOOSE i \in DOMAIN counter :
                                 Cardinality({j \in DOMAIN counter : before(j, i)}) = r - 1]]
  IN  SubSeq(all_sorted, 1, IF n < Len(counter) THEN n ELSE Len(counter))

\* sorted(items, key=lambda x: (-x[1], x[0])); equal keys keep their order
sorted_by_key(items) ==
  LET before(i, j) ==
        \/ items[i][2] > items[j][2]
        \/ /\ items[i][2] = items[j][2]
           /\ \/ str_lt(items[i][1], items[j][1])
              \/ items[i][1] = items[j][1] /\ i < j
  IN  [r \in DOMAIN items |->
         items[CHOOSE i \in DOMAIN items :
                 Cardinality({j \in DOMAIN items : before(j, i)}) = r - 1]]

\* the lines gen_counter_text yields, in order
gen_counter_text(counter, n, delimiter) ==
  LET unsorted_top_n == most_common(counter, n)
      top_n == sorted_by_key(unsorted_top_n)
      names == [r \in DOMAIN top_n |-> str_upper(top_n[r][1])]
      counts == [r \in DOMAIN top_n |-> str_of_int(top_n[r][2])]
      percentage == [r \in DOMAIN top_n |-> percent_str(counter, names[r]).val]
  IN  [r \in DOMAIN top_n |->
         names[r] \o delimiter \o counts[r] \o delimiter \o percentage[r] \o <<"\n">>]

NamePool == {v_nurse, v_welder, v_baker}

\* the counters count() can leave: distinct lower-case values in the order
\* they were first seen, each with a positive count
CounterInputs ==
  {c \in SeqsUpTo(NamePool \X (1..MaxCount), MaxKeys) :
      \A i, j \in DOMAIN c : c[i][1] = c[j][1] => i = j}

InitReport ==
  /\ mfc = <<MultiFileCounter(<<>>, PyNone)>>
  /\ hist = <<NoHist(PyNone)>>
  /\ probe = NoProbe
  /\ resolved = NoResolved
  /\ \E counter \in CounterInputs, n \in 0..MaxN :
       report = [counter |-> counter, n |-> n, body |-> <<>>, made |-> FALSE]

\* write_output_file(filepath, header, counter, n, ';') takes the body text
GenCounterText ==
  /\ ~report.made
  /\ report' = [report EXCEPT !.body = gen_counter_text(report.counter, report.n, <<";">>),
                              !.made = TRUE]
  /\ UNCHANGED <<mfc, hist, probe, resolved>>

NextReport == GenCounterText

SpecReport == InitReport /\ [][NextReport]_vars

\* the place of a value in the counter's whole distribution: descending
\* count, then ascending name
RankOf(counter, k) ==
  1 + Cardinality({k2 \in KeySet(counter) :
                     \/ CountOf(counter, k2) > CountOf(counter, k)
                     \/ CountOf(counter, k2) = CountOf(counter, k) /\ str_lt(k2, k)})

\* the report row of a value
RowOf(counter, k, delimiter) ==
  str_upper(k) \o delimiter \o str_of_int(CountOf(counter, k)) \o delimiter
     \o percent_str(counter, k).val \o <<"\n">>

\* C8: the body of the report is the first N entries of the counter's whole
\* distribution ordered by descending count and, among equal counts, by
\* ascending name, in that order; no two rows of the report are equal.
C8_ReportIsTopOfRanking ==
  report.made =>
    LET counter == report.counter
        size == IF report.n < Len(counter) THEN report.n ELSE Len(counter)
    IN  /\ Len(report.body) = size
        /\ \A r \in 1..size :
              \E k \in KeySet(counter) :
                 RankOf(counter, k) = r /\ report.body[r] = RowOf(counter, k, <<";">>)
        /\ \A r1, r2 \in DOMAIN report.body : report.body[r1] = report.body[r2] => r1 = r2

---------------------------------------------------------------------------
(* add_alias on two aggregators, as in test_aliases: with and without a     *)
(* constructor registry                                                     *)

TestRegistries == {PyNone, PyDict(<<>>), PyDict(<< <<al_occupation, <<col_SOC_NAME>>>> >>)}

TestAliasPool == {al_occupation, al_job_title} \X {col_SOC_NAME, col_JOB_TITLE}

InitAliases ==
  /\ \E r1, r2 \in TestRegistries :
       /\ mfc = <<MultiFileCounter(<<FileA>>, r1), MultiFileCounter(<<FileA>>, r2)>>
       /\ hist = <<NoHist(r1), NoHist(r2)>>
  /\ report = NoReport
  /\ probe = NoProbe
  /\ resolved = NoResolved

AddAnyAlias(i) ==
  /\ Len(hist[i].add_log) < MaxTestAliasCalls
  /\ \E pair \in TestAliasPool :
       /\ mfc' = [mfc EXCEPT ![i] = add_alias(@, pair[1], pair[2])]
       /\ hist' = [hist EXCEPT ![i].add_log = Append(@, pair)]
  /\ UNCHANGED others

NextAliases == \E i \in {1, 2} : AddAnyAlias(i)

SpecAliases == InitAliases /\ [][NextAliases]_vars

\* the constructor's registry as a dict, empty when unset
InitialDict(h) == IF h.init_dict.tag = "dict" THEN h.init_dict.val ELSE <<>>

\* the column names added for the alias, in call order
RECURSIVE AddedFor(_, _)
AddedFor(log, alias) ==
  IF log = <<>> THEN <<>>
  ELSE (IF log[1][1] = alias THEN <<log[1][2]>> ELSE <<>>) \o AddedFor(Tail(log), alias)

\* the initial aliases plus every alias added
ExpectedAliases(h) == KeySet(InitialDict(h)) \cup {h.add_log[c][1] : c \in DOMAIN h.add_log}

\* the aggregator has a registry: it was given one, or add_alias was called
HasRegistry(h) == h.init_dict.tag = "dict" \/ h.add_log # <<>>

\* the aliases property as a set
AliasSet(m) == {aliases(m).val[k] : k \in DOMAIN aliases(m).val}

\* C9: after any add_alias calls on an aggregator constructed with or without
\* a registry, the candidate list of each alias is its initial list (empty if
\* absent) followed by the added column names in call order, the alias set is
\* the initial aliases plus every alias added, and two aggregators whose
\* initial and added aliases are the same have equal alias sets.
C9_AddAliasAppends ==
  /\ \A i \in DOMAIN mfc :
       HasRegistry(hist[i]) =>
         /\ mfc[i].colname_list_dict.tag = "dict"
         /\ aliases(mfc[i]).exc = NoExc
         /\ AliasSet(mfc[i]) = ExpectedAliases(hist[i])
         /\ Len(aliases(mfc[i]).val) = Cardinality(ExpectedAliases(hist[i]))
         /\ \A alias \in ExpectedAliases(hist[i]) :
               Get(mfc[i].colname_list_dict.val, alias)
                 = (IF Has(InitialDict(hist[i]), alias)
                    THEN Get(InitialDict(hist[i]), alias) ELSE <<>>)
                   \o AddedFor(hist[i].add_log, alias)
  /\ \A i, j \in DOMAIN mfc :
       (/\ HasRegistry(hist[i]) /\ HasRegistry(hist[j])
        /\ ExpectedAliases(hist[i]) = ExpectedAliases(hist[j]))
         => AliasSet(mfc[i]) = AliasSet(mfc[j])

\* test_aliases: add_alias twice from an unset registry, against a
\* constructor dict and one add_alias
C9_Witness ==
  /\ hist[1].init_dict = PyNone
  /\ hist[1].add_log = << <<al_occupation, col_SOC_NAME>>, <<al_job_title, col_JOB_TITLE>> >>
  /\ hist[2].init_dict = PyDict(<< <<al_occupation, <<col_SOC_NAME>>>> >>)
  /\ hist[2].add_log = << <<al_job_title, col_JOB_TITLE>> >>
  /\ AliasSet(mfc[1]) = {al_occupation, al_job_title}
  /\ AliasSet(mfc[1]) = AliasSet(mfc[2])
  /\ mfc[1].colname_list_dict = mfc[2].colname_list_dict

\* C10: for every file the aliases the aggregator resolves and reads are
\* exactly the aliases of the counters and of the constraints: a file is read
\* under exactly those aliases, so each is in every normalized record, and
\* resolving the header fails only for an alias that a counter or a
\* constraint uses.
C10_ResolvesExactlyUsedAliases ==
  \A i \in DOMAIN mfc :
    LET m == mfc[i]
    IN  /\ m.pc = "rows"
             => {m.clean_reader.aliases[k] : k \in DOMAIN m.clean_reader.aliases} = UsedAliases(m)
        /\ (m.pc = "raised" /\ m.clean_reader = NoReader)
             => MissingRequired(m, m.files[m.file_i])

---------------------------------------------------------------------------
(* Resolving the header of a file: alias_dict and colname_dict              *)

HeaderColumns == {col_ID, col_STATUS, col_SOC_NAME, col_JOB_TITLE}

\* two aliases whose candidate lists share header names
SharedDict ==
  << <<al_occupation, <<col_SOC_NAME, col_JOB_TITLE>>>>,
     <<al_job_title, <<col_JOB_TITLE, col_SOC_NAME>>>> >>

ResolveRegistries == {MainDict, SharedDict, << <<al_status, <<col_STATUS>>>> >>}

\* an aggregator over one file of which only the header matters, with a
\* counter on every alias of its registry
InitResolve ==
  /\ \E header \in SeqsUpTo(HeaderColumns, MaxHeader), registry \in ResolveRegistries :
       /\ mfc = <<Configured(<< <<header>> >>, PyDict(registry), <<>>, Keys(registry))>>
       /\ hist = <<NoHist(PyDict(registry))>>
  /\ report = NoReport
  /\ probe = NoProbe
  /\ resolved = NoResolved

\* self.alias_dict(file) and self.colname_dict(file), as at the top of __iter__
ResolveHeader(i) ==
  /\ resolved.times < 2
  /\ resolved' = [times |-> resolved.times + 1,
                  alias_dict |-> alias_dict(mfc[i], mfc[i].files[1]),
                  colname_dict |-> colname_dict(mfc[i], mfc[i].files[1]),
                  before |-> IF resolved.times = 0 THEN <<>>
                             ELSE <<resolved.alias_dict, resolved.colname_dict>>]
  /\ UNCHANGED <<mfc, hist, report, probe>>

NextResolve == \E i \in Instances : ResolveHeader(i)

SpecResolve == InitResolve /\ [][NextResolve]_vars

\* the first header name, in file order, that is in the candidate list
FirstCandidate(header, colname_list) ==
  header[CHOOSE h \in DOMAIN header :
           /\ \E j \in DOMAIN colname_list : colname_list[j] = header[h]
           /\ \A g \in 1..(h - 1) : \A j \in DOMAIN colname_list : colname_list[j] # header[g]]

\* every alias of the registry has a candidate in the header
Resolvable(header, registry) ==
  \A a \in DOMAIN registry :
     \E h \in DOMAIN header : \E j \in DOMAIN registry[a][2] : registry[a][2][j] = header[h]

\* C11: for every header and registry, also one in which two candidate lists
\* share a header name, the alias-to-column map assigns to every alias of the
\* registry (each used by a counter) the first header name, in file order,
\* that is in its candidate list, the header-to-alias map is its exact
\* inverse, and resolving again gives the same maps.
C11_FirstMatchAndInverse ==
  LET header == mfc[1].files[1][1]
      registry == mfc[1].colname_list_dict.val
  IN  (resolved.times > 0 /\ Resolvable(header, registry)) =>
        /\ resolved.alias_dict.exc = NoExc
        /\ resolved.colname_dict.exc = NoExc
        /\ KeySet(resolved.colname_dict.val) = KeySet(registry)
        /\ \A a \in KeySet(resolved.colname_dict.val) :
              Get(resolved.colname_dict.val, a) = FirstCandidate(header, Get(registry, a))
        /\ AsMap(resolved.alias_dict.val)
             = {<<pair[2], pair[1]>> : pair \in AsMap(resolved.colname_dict.val)}
        /\ resolved.times = 2
             => resolved.before = <<resolved.alias_dict, resolved.colname_dict>>

---------------------------------------------------------------------------
(* One constraint against a record: numeric and textual comparison values   *)

\* the comparison of two numbers, and of two strings, under a comparator
NumCompare(cmp, a, b) ==
  CASE cmp = "==" -> a = b
    [] cmp = "<"  -> a < b
    [] cmp = "<=" -> a <= b
    [] cmp = ">"  -> a > b
    [] cmp = ">=" -> a >= b

StrCompare(cmp, s, t) ==
  CASE cmp = "==" -> s = t
    [] cmp = "<"  -> str_lt(s, t)
    [] cmp = "<=" -> s = t \/ str_lt(s, t)
    [] cmp = ">"  -> str_lt(t, s)
    [] cmp = ">=" -> s = t \/ str_lt(t, s)

\* C12: with one constraint whose value is numeric (int or float) and a row
\* whose entry is a number, constraints_satisfied returns the numeric
\* comparison of the parsed entry with the value; with a textual value it
\* returns the comparison of the normalized strings.
C12_NumericValuesCompareAsNumbers ==
  (probe.made /\ Len(mfc[1]._constraints) = 1 /\ Has(probe.row, mfc[1]._constraints[1].alias)) =>
    LET con == mfc[1]._constraints[1]
        entry == Get(probe.row, con.alias)
    IN  /\ (con.val.tag \in {"int", "float"} /\ entry # <<>> /\ \A k \in DOMAIN entry : IsDigit(entry[k]))
             => Returns(probe.result, NumCompare(con.cmp, DigitsValue(entry), con.val.num))
        /\ con.val.tag = "str"
             => Returns(probe.result, StrCompare(con.cmp, entry, con.val.val))

---------------------------------------------------------------------------
(* An aggregator without a registry, its counters and constraints named by   *)
(* the header names themselves                                               *)

NoRegistries == {PyNone, PyDict(<<>>)}

LiteralFiles ==
  {files \in SeqsUpTo({FileA, FileC}, MaxFiles) :
      \A i, j \in DOMAIN files : files[i] = files[j] => i = j}

LiteralCounterPool == {col_SOC_NAME, col_ID}

LiteralConstraintPool == {Constraint(col_STATUS, "==", PyStr(v_certified))}

InitLiteral ==
  /\ \E files \in LiteralFiles, registry \in NoRegistries :
       /\ mfc = [i \in Instances |-> MultiFileCounter(files, registry)]
       /\ hist = [i \in Instances |-> NoHist(registry)]
  /\ report = NoReport
  /\ probe = NoProbe
  /\ resolved = NoResolved

AddLiteralCounter(i) ==
  /\ Configuring(i)
  /\ \E alias \in LiteralCounterPool :
       /\ Has(mfc[i]._counters, alias) \/ Len(mfc[i]._counters) < MaxCounters
       /\ mfc' = [mfc EXCEPT ![i] = add_counter(@, alias)]
  /\ UNCHANGED <<hist, others>>

AddLiteralConstraint(i) ==
  /\ Configuring(i)
  /\ Len(mfc[i]._constraints) < MaxConstraints
  /\ \E con \in LiteralConstraintPool :
       mfc' = [mfc EXCEPT ![i] = add_constraint(@, con.alias, con.cmp, con.val)]
  /\ UNCHANGED <<hist, others>>

NextLiteral ==
  \E i \in Instances :
    \/ AddLiteralCounter(i)
    \/ AddLiteralConstraint(i)
    \/ Count(i)
    \/ StartFile(i)
    \/ ReadRow(i)
    \/ EndFile(i)
    \/ Continue(i)
    \/ Return(i)

SpecLiteral == InitLiteral /\ [][NextLiteral]_vars

\* every alias in use is a column of the header of every file
LiteralNames(m) ==
  \A f \in DOMAIN m.files :
     \A alias \in UsedAliases(m) : \E h \in DOMAIN m.files[f][1] : m.files[f][1][h] = alias

\* the cleaned entry of data line n of the file under the column
LiteralEntry(file, n, col) ==
  str_lower(str_strip(file[n][CHOOSE h \in DOMAIN file[1] : file[1][h] = col]))

\* the data lines of the file that satisfy every constraint, each read under
\* the column its constraint names
LiteralAdmitted(m, file) ==
  {n \in DataLinesAfter(file, 1) :
     \A c \in DOMAIN m._constraints :
        Returns(compare(m._constraints[c].cmp,
                        PyStr(LiteralEntry(file, n, m._constraints[c].alias)),
                        m._constraints[c].val), TRUE)}

\* C13: with no registry (unset or empty) and counters and constraints named
\* by header names of every file, each name is read from the column of that
\* name, count() raises no error, and when it has returned each counter holds
\* the counts of the admitted rows' entries in its column.
C13_LiteralNamesCount ==
  \A i \in DOMAIN mfc :
    LET m == mfc[i]
    IN  (~Truthy(m.colname_list_dict) /\ UsedAliases(m) # {} /\ LiteralNames(m)) =>
          /\ m.pc # "raised"
          /\ m.pc = "rows"
               => /\ {m.clean_reader.cols[k] : k \in DOMAIN m.clean_reader.cols} = UsedAliases(m)
                  /\ m.clean_reader.aliases = m.clean_reader.cols
          /\ (m.pc = "idle" /\ hist[i].returned = 1)
               => \A c \in DOMAIN m._counters :
                     \A v \in KeySet(m._counters[c][2])
                          \cup UNION {{LiteralEntry(m.files[f], n, m._counters[c][1]) :
                                         n \in LiteralAdmitted(m, m.files[f])} : f \in DOMAIN m.files} :
                        CountOf(m._counters[c][2], v)
                          = SumValues([f \in DOMAIN m.files |->
                               <<f, Cardinality({n \in LiteralAdmitted(m, m.files[f]) :
                                      LiteralEntry(m.files[f], n, m._counters[c][1]) = v})>>])

====
